---- MODULE Spec2Model ----
(***************************************************************************)
(* Model of the alert-processing pipeline of the DevOps monitoring         *)
(* platform: src/src/automation/alert_processor.py (AlertProcessor) and    *)
(* the two callers that feed it, the POST /api/alerts handler of           *)
(* src/src/api/flask_app.py and the scheduler entry point                  *)
(* process_pending_alerts.                                                 *)
(*                                                                         *)
(* Python values: a str is a TLA+ string, None is the reserved string      *)
(* None (no payload of the model carries that text), a list is a           *)
(* sequence, a dict is a function on its keys.  Time is counted in         *)
(* minutes since midnight of day 0; one call of process_alert reads the    *)
(* clock at one minute.                                                    *)
(***************************************************************************)
EXTENDS Integers, Sequences, FiniteSets, TLC

VARIABLES
    active_alerts,          \* self.active_alerts: dict id -> Alert
    alert_history,          \* self.alert_history: list of Alert
    notification_channels,  \* self.notification_channels: list of NotificationChannel
    routing_rules,          \* self.routing_rules: list of rule dicts
    now,                    \* datetime.now(), in minutes
    handled,                \* the last handler call: its inputs, what it returned, what it sent
    ingest,                 \* the request thread inside POST /api/alerts: its position and locals
    hub                     \* DevOpsAutomationHub.alert_processor: its active_alerts and alert_history

vars ==
    <<active_alerts, alert_history, notification_channels, routing_rules, now, handled, ingest,
      hub>>

-----------------------------------------------------------------------------
\* Bounds of the model.

\* alert_history holds at most this many alerts.
MaxHistory == 2

\* The clock advances at most this many minutes after the processor is built.
MaxElapsed == 5

\* The scheduler stops when the history of its processor holds this many alerts.
MaxHubHistory == 4

-----------------------------------------------------------------------------
\* Python values and str methods.

None == "None"

EmptyDict == <<>>

DictGet(d, k, default) == IF k \in DOMAIN d THEN d[k] ELSE default

DictSet(d, k, v) == [i \in DOMAIN d \cup {k} |-> IF i = k THEN v ELSE d[i]]

UpperCase == "ABCDEFGHIJKLMNOPQRSTUVWXYZ"

LowerCase == "abcdefghijklmnopqrstuvwxyz"

LowerChar(c) ==
    IF \E i \in 1..Len(UpperCase) : SubSeq(UpperCase, i, i) = c
    THEN LET i == CHOOSE j \in 1..Len(UpperCase) : SubSeq(UpperCase, j, j) = c
         IN  SubSeq(LowerCase, i, i)
    ELSE c

RECURSIVE lower(_)
\* str.lower()
lower(s) ==
    IF s = "" THEN ""
    ELSE LowerChar(SubSeq(s, 1, 1)) \o lower(SubSeq(s, 2, Len(s)))

\* k in s, for two str
Contains(k, s) ==
    \E i \in 1..(Len(s) - Len(k) + 1) : SubSeq(s, i, i + Len(k) - 1) = k

\* datetime.hour of a time in minutes
HourOf(t) == (t \div 60) % 24

-----------------------------------------------------------------------------
\* Configuration built by AlertProcessor.__init__.

deduplication_window == 5

\* placeholder: the channel's URL is the one the send function never posts to
_setup_notification_channels ==
    << [name |-> "email_ops",      type |-> "email",   enabled |-> TRUE, placeholder |-> TRUE],
       [name |-> "slack_critical", type |-> "slack",   enabled |-> TRUE, placeholder |-> TRUE],
       [name |-> "pagerduty",      type |-> "webhook", enabled |-> TRUE, placeholder |-> TRUE] >>

_setup_routing_rules ==
    << [name |-> "critical_alerts",   conditions |-> [severity |-> "critical"],
        channels |-> <<"email_ops", "slack_critical", "pagerduty">>],
       [name |-> "warning_alerts",    conditions |-> [severity |-> "warning"],
        channels |-> <<"email_ops", "slack_critical">>],
       [name |-> "info_alerts",       conditions |-> [severity |-> "info"],
        channels |-> <<"email_ops">>],
       [name |-> "kubernetes_alerts", conditions |-> [source |-> "kubernetes"],
        channels |-> <<"email_ops", "slack_critical">>] >>

-----------------------------------------------------------------------------
\* Alert creation, deduplication, enrichment, escalation.

\* hashlib.md5(content).hexdigest()[:12]: a digest is modelled by the content it
\* digests, so two ids are equal exactly when the digested texts are equal.
md5_12(content) == content

\* the severity hashed too
generate_alert_id_WithSeverity(alert_data) ==
    md5_12(DictGet(alert_data, "title", "") \o DictGet(alert_data, "source", "")
           \o DictGet(alert_data, "description", "") \o DictGet(alert_data, "severity", ""))

generate_alert_id(alert_data) ==
    md5_12(DictGet(alert_data, "title", "") \o DictGet(alert_data, "source", "")
           \o DictGet(alert_data, "description", ""))

\* Alert(...) of process_alert raises when severity has no .lower()
AlertRaises(alert_data) == DictGet(alert_data, "severity", "info") = None

Alert(alert_data, t) ==
    [ id          |-> generate_alert_id(alert_data),
      title       |-> DictGet(alert_data, "title", "Unknown Alert"),
      description |-> DictGet(alert_data, "description", ""),
      severity    |-> lower(DictGet(alert_data, "severity", "info")),
      source      |-> DictGet(alert_data, "source", "unknown"),
      timestamp   |-> t,
      tags        |-> DictGet(alert_data, "tags", <<>>),
      metadata    |-> DictGet(alert_data, "metadata", EmptyDict),
      status      |-> "new",
      assigned_to |-> None ]

\* the window compared the wrong way round
IsDuplicateOf_Inverted(existing_alert, new_alert, current_time) ==
    /\ existing_alert.title = new_alert.title
    /\ existing_alert.source = new_alert.source
    /\ current_time - existing_alert.timestamp > deduplication_window

\* the window closed one instant late
IsDuplicateOf_Inclusive(existing_alert, new_alert, current_time) ==
    /\ existing_alert.title = new_alert.title
    /\ existing_alert.source = new_alert.source
    /\ current_time - existing_alert.timestamp <= deduplication_window

\* duplicates looked up by fingerprint
IsDuplicateOf_ById(existing_alert, new_alert, current_time) ==
    /\ existing_alert.id = new_alert.id
    /\ current_time - existing_alert.timestamp < deduplication_window

IsDuplicateOf(existing_alert, new_alert, current_time) ==
    /\ existing_alert.title = new_alert.title
    /\ existing_alert.source = new_alert.source
    /\ current_time - existing_alert.timestamp < deduplication_window

deduplicate_alert(active, new_alert, current_time) ==
    \E alert_id \in DOMAIN active : IsDuplicateOf(active[alert_id], new_alert, current_time)

\* the closing hours 6 and 17 tagged too
TimeTags_UpperInclusive(hour) ==
    IF 0 <= hour /\ hour <= 6 THEN <<"night_hours">>
    ELSE IF 9 <= hour /\ hour <= 17 THEN <<"business_hours">>
    ELSE <<>>

TimeTags(hour) ==
    IF 0 <= hour /\ hour < 6 THEN <<"night_hours">>
    ELSE IF 9 <= hour /\ hour < 17 THEN <<"business_hours">>
    ELSE <<>>

SourceTags(source, description) ==
    IF source = "kubernetes"
    THEN <<"container_platform">> \o
         (IF Contains("pod", lower(description)) THEN <<"pod_issue">>
          ELSE IF Contains("node", lower(description)) THEN <<"node_issue">>
          ELSE <<>>)
    ELSE IF source = "aws"
    THEN <<"cloud_platform">> \o
         (IF Contains("ec2", lower(description)) THEN <<"compute_issue">>
          ELSE IF Contains("rds", lower(description)) THEN <<"database_issue">>
          ELSE <<>>)
    ELSE <<>>

SeverityMetadata(metadata, severity) ==
    IF severity = "critical"
    THEN DictSet(DictSet(metadata, "requires_immediate_attention", "True"),
                 "max_response_time", "15 minutes")
    ELSE IF severity = "warning"
    THEN DictSet(DictSet(metadata, "requires_attention", "True"),
                 "max_response_time", "1 hour")
    ELSE metadata

_enrich_alert(alert) ==
    [alert EXCEPT
        !.tags = @ \o TimeTags(HourOf(alert.timestamp))
                   \o SourceTags(alert.source, alert.description),
        !.metadata = SeverityMetadata(@, alert.severity)]

EscalationKeywords == {"down", "failed", "error", "timeout"}

\* the keyword alone escalates
ShouldEscalate_AnySeverity(alert) ==
    \E keyword \in EscalationKeywords : Contains(keyword, lower(alert.description))

ShouldEscalate(alert) ==
    /\ \E keyword \in EscalationKeywords : Contains(keyword, lower(alert.description))
    /\ alert.severity = "warning"

\* the source matched whatever its case
AssigneeOf_IgnoringCase(source) ==
    IF lower(source) = "kubernetes" THEN "k8s_team"
    ELSE IF lower(source) = "aws" THEN "cloud_team"
    ELSE IF lower(source) = "database" THEN "dba_team"
    ELSE None

AssigneeOf(source) ==
    IF source = "kubernetes" THEN "k8s_team"
    ELSE IF source = "aws" THEN "cloud_team"
    ELSE IF source = "database" THEN "dba_team"
    ELSE None

\* an assigned alert marked acknowledged
_apply_severity_rules_Acknowledging(alert) ==
    LET escalated ==
            IF ShouldEscalate(alert)
            THEN [alert EXCEPT !.severity = "critical", !.tags = Append(@, "auto_escalated")]
            ELSE alert
    IN  IF AssigneeOf(alert.source) # None
        THEN [escalated EXCEPT !.assigned_to = AssigneeOf(alert.source),
                               !.status = "acknowledged"]
        ELSE escalated

_apply_severity_rules(alert) ==
    LET escalated ==
            IF ShouldEscalate(alert)
            THEN [alert EXCEPT !.severity = "critical", !.tags = Append(@, "auto_escalated")]
            ELSE alert
    IN  IF AssigneeOf(alert.source) # None
        THEN [escalated EXCEPT !.assigned_to = AssigneeOf(alert.source)]
        ELSE escalated

-----------------------------------------------------------------------------
\* Routing.

\* Alert attributes that hold a str or None; the others hold a list, a dict
\* or a datetime, which never equal a rule's str-or-None condition value.
StrAttrs == {"id", "title", "description", "severity", "source", "status", "assigned_to"}

\* getattr(alert, condition_key, None) != condition_value
AttrDiffers(alert, condition_key, condition_value) ==
    IF condition_key \in StrAttrs THEN alert[condition_key] # condition_value
    ELSE IF condition_key \in DOMAIN alert THEN TRUE
    ELSE None # condition_value

RuleMatches(rule, alert) ==
    \A condition_key \in DOMAIN rule.conditions :
        ~AttrDiffers(alert, condition_key, rule.conditions[condition_key])

RECURSIVE MatchingChannels(_, _)
\* the loop over self.routing_rules, extending matching_channels
MatchingChannels(rules, alert) ==
    IF rules = <<>> THEN <<>>
    ELSE (IF RuleMatches(Head(rules), alert) THEN Head(rules).channels ELSE <<>>)
         \o MatchingChannels(Tail(rules), alert)

RECURSIVE UniqueChannels_KeepLast(_)
\* the last occurrence of a name kept, not the first
UniqueChannels_KeepLast(xs) ==
    IF xs = <<>> THEN <<>>
    ELSE LET rest == UniqueChannels_KeepLast(Tail(xs))
         IN  IF \E i \in 1..Len(rest) : rest[i] = Head(xs) THEN rest
             ELSE <<Head(xs)>> \o rest

RECURSIVE UniqueChannels(_)
\* list(dict.fromkeys(matching_channels))
UniqueChannels(xs) ==
    IF xs = <<>> THEN <<>>
    ELSE LET front == UniqueChannels(SubSeq(xs, 1, Len(xs) - 1))
             last  == xs[Len(xs)]
         IN  IF \E i \in 1..Len(front) : front[i] = last THEN front
             ELSE Append(front, last)

\* an alert no rule matches sent to email_ops
route_alert_FallbackEmail(rules, alert) ==
    IF MatchingChannels(rules, alert) = <<>> THEN <<"email_ops">>
    ELSE UniqueChannels(MatchingChannels(rules, alert))

route_alert(rules, alert) == UniqueChannels(MatchingChannels(rules, alert))

-----------------------------------------------------------------------------
\* Notification.

\* next((ch for ch in self.notification_channels if ch.name == channel_name), None)
FindChannel(channels, channel_name) ==
    IF \E i \in 1..Len(channels) : channels[i].name = channel_name
    THEN LET i == CHOOSE j \in 1..Len(channels) :
                    /\ channels[j].name = channel_name
                    /\ \A k \in 1..(j - 1) : channels[k].name # channel_name
         IN  <<channels[i]>>
    ELSE <<>>

\* The send function notify_alert picks for a channel type; other types have none.
HasSender(type) == type \in {"email", "slack", "webhook"}

\* What send_*_notification returns: email builds a message and posts nothing;
\* slack and webhook post unless the URL is the placeholder, and return False
\* when the post raises.  delivered: the channels whose post succeeds.
SendSucceeds(channel, delivered) ==
    IF channel.type = "email" THEN TRUE
    ELSE channel.placeholder \/ channel.name \in delivered

\* a skipped channel counted as failed
NotifyStep_SkippedCountsFailed(acc, channels, channel_name, delivered) ==
    LET found == FindChannel(channels, channel_name)
    IN  IF found = <<>> \/ ~found[1].enabled
        THEN [acc EXCEPT !.failed_notifications = @ + 1,
                         !.results = Append(@,
                             [channel |-> channel_name, status |-> "skipped",
                              reason |-> "Channel not found or disabled"])]
        ELSE LET channel == found[1]
                 success == HasSender(channel.type) /\ SendSucceeds(channel, delivered)
             IN  [acc EXCEPT !.successful_notifications = IF success THEN @ + 1 ELSE @,
                             !.failed_notifications = IF success THEN @ ELSE @ + 1,
                             !.sends = IF HasSender(channel.type)
                                       THEN Append(@, channel_name) ELSE @,
                             !.results = Append(@,
                                 [channel |-> channel_name,
                                  status |-> IF success THEN "success" ELSE "failed",
                                  type |-> channel.type])]

\* One pass of the loop body of notify_alert for channel_name.
NotifyStep(acc, channels, channel_name, delivered) ==
    LET found == FindChannel(channels, channel_name)
    IN  IF found = <<>> \/ ~found[1].enabled
        THEN [acc EXCEPT !.results = Append(@,
                 [channel |-> channel_name, status |-> "skipped",
                  reason |-> "Channel not found or disabled"])]
        ELSE LET channel == found[1]
                 success == HasSender(channel.type) /\ SendSucceeds(channel, delivered)
                 sends   == IF HasSender(channel.type) THEN Append(acc.sends, channel_name)
                            ELSE acc.sends
             IN  IF success
                 THEN [acc EXCEPT !.successful_notifications = @ + 1,
                                  !.sends = sends,
                                  !.results = Append(@,
                                      [channel |-> channel_name, status |-> "success",
                                       type |-> channel.type])]
                 ELSE [acc EXCEPT !.failed_notifications = @ + 1,
                                  !.sends = sends,
                                  !.results = Append(@,
                                      [channel |-> channel_name, status |-> "failed",
                                       type |-> channel.type])]

RECURSIVE NotifyLoop_StopAtFailure(_, _, _, _)
\* the loop left at the first channel that is not a success
NotifyLoop_StopAtFailure(acc, channels, target_channels, delivered) ==
    IF target_channels = <<>> THEN acc
    ELSE LET next == NotifyStep(acc, channels, Head(target_channels), delivered)
         IN  IF next.results[Len(next.results)].status # "success" THEN next
             ELSE NotifyLoop_StopAtFailure(next, channels, Tail(target_channels), delivered)

RECURSIVE NotifyLoop(_, _, _, _)
NotifyLoop(acc, channels, target_channels, delivered) ==
    IF target_channels = <<>> THEN acc
    ELSE NotifyLoop(NotifyStep(acc, channels, Head(target_channels), delivered),
                    channels, Tail(target_channels), delivered)

\* notification_results of notify_alert, with the sends it made (sends: the
\* channel names a send function was called for, in order).
notify_alert(rules, channels, alert, delivered) ==
    LET target_channels == route_alert(rules, alert)
    IN  NotifyLoop([ alert_id                 |-> alert.id,
                     channels_attempted       |-> Len(target_channels),
                     successful_notifications |-> 0,
                     failed_notifications     |-> 0,
                     results                  |-> <<>>,
                     sends                    |-> <<>> ],
                   channels, target_channels, delivered)

-----------------------------------------------------------------------------
\* process_alert and the two callers that ingest payloads.

NoAlert == <<>>

\* escalation applied before enrichment
Pipeline_EscalatedFirst(alert_data, t) ==
    LET alert     == Alert(alert_data, t)
        escalated == _apply_severity_rules(alert)
    IN  [new |-> alert, enriched |-> escalated, stored |-> _enrich_alert(escalated)]

\* The Alert process_alert builds from alert_data at time t (new), and what
\* enrichment and escalation make of it (stored).
Pipeline(alert_data, t) ==
    LET alert    == Alert(alert_data, t)
        enriched == _enrich_alert(alert)
    IN  [new |-> alert, enriched |-> enriched, stored |-> _apply_severity_rules(enriched)]

\* The payload after a call that stored alert: Alert(...) was given the
\* payload's own tags list and metadata dict, and enrichment and escalation
\* appended to and set entries of those very objects.
PayloadAfter(alert_data, alert) ==
    [ k \in DOMAIN alert_data |->
        IF k = "tags" THEN alert.tags
        ELSE IF k = "metadata" THEN alert.metadata
        ELSE alert_data[k] ]

\* a duplicate enriched before it is dropped
process_alert_with_EnrichedThenDropped(active, history, alert_data, t, built) ==
    IF AlertRaises(alert_data)
    THEN [active |-> active, history |-> history,
          returned |-> "None", path |-> "failed", alert |-> NoAlert,
          alert_data_after |-> alert_data]
    ELSE IF deduplicate_alert(active, built.new, t)
    THEN [active |-> active, history |-> history,
          returned |-> "None", path |-> "duplicate", alert |-> NoAlert,
          alert_data_after |-> PayloadAfter(alert_data, built.stored)]
    ELSE [active   |-> DictSet(active, built.stored.id, built.stored),
          history  |-> Append(history, built.stored),
          returned |-> "alert", path |-> "stored", alert |-> built.stored,
          alert_data_after |-> PayloadAfter(alert_data, built.stored)]

\* a failure leaves the id of the payload in the active map
process_alert_with_PartialOnFailure(active, history, alert_data, t, built) ==
    IF AlertRaises(alert_data)
    THEN [active |-> DictSet(active, generate_alert_id(alert_data), NoAlert),
          history |-> history,
          returned |-> "None", path |-> "failed", alert |-> NoAlert,
          alert_data_after |-> alert_data]
    ELSE IF deduplicate_alert(active, built.new, t)
    THEN [active |-> active, history |-> history,
          returned |-> "None", path |-> "duplicate", alert |-> NoAlert,
          alert_data_after |-> alert_data]
    ELSE [active   |-> DictSet(active, built.stored.id, built.stored),
          history  |-> Append(history, built.stored),
          returned |-> "alert", path |-> "stored", alert |-> built.stored,
          alert_data_after |-> PayloadAfter(alert_data, built.stored)]

\* the history restarted with each stored alert
process_alert_with_HistoryRestarted(active, history, alert_data, t, built) ==
    IF AlertRaises(alert_data)
    THEN [active |-> active, history |-> history,
          returned |-> "None", path |-> "failed", alert |-> NoAlert,
          alert_data_after |-> alert_data]
    ELSE IF deduplicate_alert(active, built.new, t)
    THEN [active |-> active, history |-> history,
          returned |-> "None", path |-> "duplicate", alert |-> NoAlert,
          alert_data_after |-> alert_data]
    ELSE [active   |-> DictSet(active, built.stored.id, built.stored),
          history  |-> <<built.stored>>,
          returned |-> "alert", path |-> "stored", alert |-> built.stored,
          alert_data_after |-> PayloadAfter(alert_data, built.stored)]

\* the alert put in the active map, nothing appended to the history
process_alert_with_ActiveOnly(active, history, alert_data, t, built) ==
    IF AlertRaises(alert_data)
    THEN [active |-> active, history |-> history,
          returned |-> "None", path |-> "failed", alert |-> NoAlert,
          alert_data_after |-> alert_data]
    ELSE IF deduplicate_alert(active, built.new, t)
    THEN [active |-> active, history |-> history,
          returned |-> "None", path |-> "duplicate", alert |-> NoAlert,
          alert_data_after |-> alert_data]
    ELSE [active   |-> DictSet(active, built.stored.id, built.stored),
          history  |-> history,
          returned |-> "alert", path |-> "stored", alert |-> built.stored,
          alert_data_after |-> PayloadAfter(alert_data, built.stored)]

\* process_alert(alert_data) at time t on the store (active, history), given
\* built = Pipeline(alert_data, t): the store it leaves and what it returns
\* ("alert" with the Alert, or "None").  path tells the two ways of returning
\* None apart.
process_alert_with(active, history, alert_data, t, built) ==
    IF AlertRaises(alert_data)
    THEN [active |-> active, history |-> history,
          returned |-> "None", path |-> "failed", alert |-> NoAlert,
          alert_data_after |-> alert_data]
    ELSE IF deduplicate_alert(active, built.new, t)
    THEN [active |-> active, history |-> history,
          returned |-> "None", path |-> "duplicate", alert |-> NoAlert,
          alert_data_after |-> alert_data]
    ELSE [active   |-> DictSet(active, built.stored.id, built.stored),
          history  |-> Append(history, built.stored),
          returned |-> "alert", path |-> "stored", alert |-> built.stored,
          alert_data_after |-> PayloadAfter(alert_data, built.stored)]

\* Payloads submitted to POST /api/alerts.
P_HighCpu ==
    [title |-> "High CPU", source |-> "monitoring", description |-> "cpu 92%"]

P_HighCpuWarn ==
    [title |-> "High CPU", source |-> "monitoring", description |-> "cpu 99% TIMEOUT",
     severity |-> "WARNING"]

P_DbDown ==
    [title |-> "DB down", description |-> "database connection failed",
     severity |-> "warning", source |-> "database"]

P_AwsInfo ==
    [title |-> "Disk", source |-> "aws", description |-> "ec2 disk error",
     severity |-> "info", metadata |-> [region |-> "eu-west-1"]]

P_Defaults == [description |-> "x"]

P_UnknownExplicit ==
    [title |-> "Unknown Alert", source |-> "unknown", description |-> "x"]

P_Fatal ==
    [title |-> "Fan", source |-> "Kubernetes", description |-> "fan failed",
     severity |-> "fatal"]

\* P_AwsInfo again, with "severity": null
P_NoneSeverity ==
    [title |-> "Disk", source |-> "aws", description |-> "ec2 disk error",
     severity |-> None]

P_Empty == EmptyDict

Payloads ==
    { P_HighCpu, P_HighCpuWarn, P_DbDown, P_AwsInfo, P_Defaults,
      P_UnknownExplicit, P_Fatal, P_NoneSeverity, P_Empty }

\* sample_alerts of process_pending_alerts
sample_alerts ==
    << [ title       |-> "High CPU Usage on Production Server",
         description |-> "CPU usage has exceeded 90% for the last 5 minutes on server prod-web-01",
         severity    |-> "warning",
         source      |-> "monitoring",
         tags        |-> <<"cpu", "performance", "production">>,
         metadata    |-> [server |-> "prod-web-01", cpu_percent |-> "92.5"] ],
       [ title       |-> "Kubernetes Pod CrashLoopBackOff",
         description |-> "Pod 'api-service-7d4b8c9f-xyz' is in CrashLoopBackOff state",
         severity    |-> "critical",
         source      |-> "kubernetes",
         tags        |-> <<"pod", "crash", "api">>,
         metadata    |-> [namespace |-> "production", pod |-> "api-service-7d4b8c9f-xyz"] ] >>

\* The processor is built at one of these times (05:56 and 16:56).
StartTimes == {5 * 60 + 56, 16 * 60 + 56}

\* The time the processor was built, and the minutes since.
StartOf(t) == CHOOSE s \in StartTimes : s <= t /\ \A u \in StartTimes : u <= t => u <= s

Elapsed(t) == t - StartOf(t)

\* The clock is read at these minutes after the start: at once, one minute
\* before the deduplication window closes, when it closes, and each minute after.
Sampled == {0, deduplication_window - 1} \cup (deduplication_window..MaxElapsed)

\* The times the clock of the model shows.
Times == { s + e : s \in StartTimes, e \in Sampled }

\* A processor that runs round the clock reads it at these times: the first
\* and the last minute of every hour of the day.
DayTimes == { hour * 60 + minute : hour \in 0..23, minute \in {0, 59} }

\* A payload with nothing but a title: the text of the description of P_Defaults.
P_TitleOnly == [title |-> "x"]

\* The payloads submitted to it.
DayPayloads == {P_Defaults, P_DbDown, P_TitleOnly}

\* Pipeline, tabulated once for the payloads and times of the model.
PipelineTable ==
    [ alert_data \in { p \in Payloads \cup { sample_alerts[i] : i \in 1..Len(sample_alerts) } :
                         p # EmptyDict /\ ~AlertRaises(p) },
      t \in Times |-> Pipeline(alert_data, t) ]

\* The same for the payloads and times of the processor that runs round the clock.
DayPipelineTable ==
    [ alert_data \in DayPayloads, t \in DayTimes |-> Pipeline(alert_data, t) ]

process_alert(active, history, alert_data, t) ==
    process_alert_with(active, history, alert_data, t,
                       IF AlertRaises(alert_data) THEN NoAlert
                       ELSE IF alert_data \in DayPayloads /\ t \in DayTimes
                       THEN DayPipelineTable[alert_data, t]
                       ELSE PipelineTable[alert_data, t])

NotNotified == <<>>

\* the alert routed with the severity it was submitted with
ProcessAndNotify_RoutedAsSubmitted(active, history, rules, channels, alert_data, t, delivered) ==
    LET r == process_alert(active, history, alert_data, t)
    IN  [ active  |-> r.active,
          history |-> r.history,
          call    |-> [ alert_data     |-> alert_data,
                        at             |-> t,
                        active_before  |-> active,
                        history_before |-> history,
                        returned       |-> r.returned,
                        path           |-> r.path,
                        alert          |-> r.alert,
                        alert_data_after |-> r.alert_data_after,
                        notification   |-> IF r.returned = "alert"
                                           THEN notify_alert(rules, channels,
                                                    [r.alert EXCEPT !.severity =
                                                        PipelineTable[alert_data, t].new.severity],
                                                    delivered)
                                           ELSE NotNotified ] ]

\* alert = process_alert(alert_data); if alert: notify_alert(alert)
\* as both callers do it.  call records the call for the properties below: its
\* input, the clock and the store it found, what process_alert returned and
\* what notify_alert returned.
ProcessAndNotify(active, history, rules, channels, alert_data, t, delivered) ==
    LET r == process_alert(active, history, alert_data, t)
    IN  [ active  |-> r.active,
          history |-> r.history,
          call    |-> [ alert_data     |-> alert_data,
                        at             |-> t,
                        active_before  |-> active,
                        history_before |-> history,
                        returned       |-> r.returned,
                        path           |-> r.path,
                        alert          |-> r.alert,
                        alert_data_after |-> r.alert_data_after,
                        notification   |-> IF r.returned = "alert"
                                           THEN notify_alert(rules, channels, r.alert, delivered)
                                           ELSE NotNotified ] ]

\* The channels whose send function posts to the network.
PostingChannels(channels) ==
    { channels[i].name : i \in { j \in 1..Len(channels) :
                                    /\ channels[j].type \in {"slack", "webhook"}
                                    /\ ~channels[j].placeholder } }

\* Configurations a deployment substitutes for the built-in ones
\* (self.routing_rules and self.notification_channels are plain attributes).
custom_routing_rules ==
    << [name |-> "db_critical",   conditions |-> [severity |-> "critical", source |-> "database"],
        channels |-> <<"pagerduty", "sms_oncall">>],
       [name |-> "unassigned",    conditions |-> [assigned_to |-> None],
        channels |-> <<"email_ops", "email_ops">>],
       [name |-> "team_platform", conditions |-> [team |-> "platform"],
        channels |-> <<"slack_critical">>],
       [name |-> "no_team",       conditions |-> [team |-> None],
        channels |-> <<"slack_critical">>],
       [name |-> "catch_all",     conditions |-> EmptyDict,
        channels |-> <<"email_ops">>] >>

RuleSets == {_setup_routing_rules, custom_routing_rules}

\* slack_critical disabled, pagerduty posting to a real endpoint
channels_slack_disabled ==
    << [name |-> "email_ops",      type |-> "email",   enabled |-> TRUE,  placeholder |-> TRUE],
       [name |-> "slack_critical", type |-> "slack",   enabled |-> FALSE, placeholder |-> TRUE],
       [name |-> "pagerduty",      type |-> "webhook", enabled |-> TRUE,  placeholder |-> FALSE] >>

\* no pagerduty, slack_critical posting to a real endpoint, and a channel of
\* a type notify_alert has no send function for
channels_without_pagerduty ==
    << [name |-> "email_ops",      type |-> "email", enabled |-> TRUE, placeholder |-> TRUE],
       [name |-> "slack_critical", type |-> "slack", enabled |-> TRUE, placeholder |-> FALSE],
       [name |-> "sms_oncall",     type |-> "sms",   enabled |-> TRUE, placeholder |-> TRUE] >>

ChannelRegistries ==
    {_setup_notification_channels, channels_slack_disabled, channels_without_pagerduty}

-----------------------------------------------------------------------------
\* get_alert_summary and the background collector that calls it.

\* severity_counts: the three keys it starts with and one more for every other
\* severity found in the active map.
severity_counts(active) ==
    [ severity \in {"critical", "warning", "info"}
                       \cup { active[id].severity : id \in DOMAIN active }
        |-> Cardinality({ id \in DOMAIN active : active[id].severity = severity }) ]

\* The dict get_alert_summary returns at current_time.
AlertSummary(active, history, current_time) ==
    [ active_alerts      |-> Cardinality(DOMAIN active),
      severity_breakdown |-> severity_counts(active),
      recent_alerts_24h  |-> Cardinality({ k \in 1..Len(history) :
                                             current_time - history[k].timestamp < 24 * 60 }),
      total_processed    |-> Len(history),
      last_processed     |-> current_time ]

\* One call of get_alert_summary, by GET /api/alerts or by the background
\* collector thread; returned is the summary.
get_alert_summary ==
    /\ handled' = [op |-> "get_alert_summary", calls |-> <<>>,
                   returned |-> AlertSummary(active_alerts, alert_history, now)]
    /\ UNCHANGED <<active_alerts, alert_history, notification_channels, routing_rules, now,
                   ingest, hub>>

-----------------------------------------------------------------------------
\* The handlers as atomic operations.

\* The store of an AlertProcessor that has processed nothing.
empty_store == [active_alerts |-> EmptyDict, alert_history |-> <<>>]

\* The request thread before its first request.
idle_thread ==
    [ pc |-> "idle", alert_data |-> EmptyDict, at |-> 0, alert |-> NoAlert,
      active_before |-> EmptyDict, history_before |-> <<>>, trail |-> <<>>,
      target_channels |-> <<>>, notification |-> NotNotified ]

Init ==
    /\ active_alerts = EmptyDict
    /\ alert_history = <<>>
    /\ notification_channels = _setup_notification_channels
    /\ routing_rules = _setup_routing_rules
    /\ now \in StartTimes
    /\ handled = [op |-> "none", calls |-> <<>>, returned |-> 0]
    /\ ingest = idle_thread
    /\ hub = empty_store

\* Time passes.
Tick ==
    /\ \E e \in Sampled : e > Elapsed(now)
    /\ now' = StartOf(now) + CHOOSE e \in Sampled :
                                /\ e > Elapsed(now)
                                /\ \A f \in Sampled : f > Elapsed(now) => e <= f
    /\ UNCHANGED <<active_alerts, alert_history, notification_channels, routing_rules, handled,
                   ingest, hub>>

\* POST /api/alerts with body alert_data; returned is the HTTP status.
create_alert(alert_data) ==
    IF alert_data = EmptyDict
    THEN /\ handled' = [op |-> "create_alert", calls |-> <<>>, returned |-> 400]
         /\ UNCHANGED <<active_alerts, alert_history, notification_channels, routing_rules, now,
                        ingest, hub>>
    ELSE \E delivered \in SUBSET PostingChannels(notification_channels) :
            LET r == ProcessAndNotify(active_alerts, alert_history, routing_rules,
                                      notification_channels, alert_data, now, delivered)
            IN  /\ Len(r.history) <= MaxHistory
                /\ active_alerts' = r.active
                /\ alert_history' = r.history
                /\ handled' = [op |-> "create_alert", calls |-> <<r.call>>, returned |-> 200]
                /\ UNCHANGED <<notification_channels, routing_rules, now, ingest, hub>>

\* The scheduler's call; returned is processed_count.
process_pending_alerts ==
    \E delivered \in SUBSET PostingChannels(notification_channels) :
        LET r1 == ProcessAndNotify(active_alerts, alert_history, routing_rules,
                                   notification_channels, sample_alerts[1], now, delivered)
            r2 == ProcessAndNotify(r1.active, r1.history, routing_rules,
                                   notification_channels, sample_alerts[2], now, delivered)
            count == (IF r1.call.returned = "alert" THEN 1 ELSE 0)
                     + (IF r2.call.returned = "alert" THEN 1 ELSE 0)
        IN  /\ Len(r2.history) <= MaxHistory
            /\ active_alerts' = r2.active
            /\ alert_history' = r2.history
            /\ handled' = [op |-> "process_pending_alerts", calls |-> <<r1.call, r2.call>>,
                           returned |-> count]
            /\ UNCHANGED <<notification_channels, routing_rules, now, ingest, hub>>

Next ==
    \/ Tick
    \/ \E alert_data \in Payloads : create_alert(alert_data)
    \/ process_pending_alerts
    \/ get_alert_summary

Spec == Init /\ [][Next]_vars

\* A processor whose rules and channels were configured before the first
\* payload, handling payloads that arrive within one minute.
InitConfigured ==
    /\ active_alerts = EmptyDict
    /\ alert_history = <<>>
    /\ notification_channels \in ChannelRegistries
    /\ routing_rules \in RuleSets
    /\ now \in StartTimes
    /\ handled = [op |-> "none", calls |-> <<>>, returned |-> 0]
    /\ ingest = idle_thread
    /\ hub = empty_store

NextConfigured ==
    \/ \E alert_data \in Payloads : create_alert(alert_data)
    \/ process_pending_alerts

SpecConfigured == InitConfigured /\ [][NextConfigured]_vars

\* A processor with the built-in configuration, started at any hour of the
\* day and handling payloads that arrive within one minute.
InitDay ==
    /\ active_alerts = EmptyDict
    /\ alert_history = <<>>
    /\ notification_channels = _setup_notification_channels
    /\ routing_rules = _setup_routing_rules
    /\ now \in DayTimes
    /\ handled = [op |-> "none", calls |-> <<>>, returned |-> 0]
    /\ ingest = idle_thread
    /\ hub = empty_store

NextDay ==
    \/ \E alert_data \in DayPayloads : create_alert(alert_data)
    \/ get_alert_summary

SpecDay == InitDay /\ [][NextDay]_vars

-----------------------------------------------------------------------------
\* POST /api/alerts statement by statement: the request thread runs
\* process_alert and notify_alert while the collector thread may call
\* get_alert_summary between any two statements (no lock guards the store).

\* Positions at which the request thread holds no payload in progress.
Resting == {"idle", "dropped", "failed", "raised", "done"}

\* The thread moves to position pc.
Goto(pc) == [ingest EXCEPT !.pc = pc, !.trail = Append(@, pc)]

\* duplicates never dropped: every payload goes on
AfterDuplicateCheck_NeverDropped(is_duplicate) == "novel"

\* if self.deduplicate_alert(alert): return None
AfterDuplicateCheck(is_duplicate) == IF is_duplicate THEN "dropped" ELSE "novel"

\* rule["conditions"] raises KeyError for a rule dict without that key
RouteRaises(rules) == \E k \in 1..Len(rules) : "conditions" \notin DOMAIN rules[k]

\* A rule set whose second rule was written without conditions.
rules_missing_conditions ==
    << [name |-> "critical_alerts", conditions |-> [severity |-> "critical"],
        channels |-> <<"email_ops", "slack_critical", "pagerduty">>],
       [name |-> "everything", channels |-> <<"email_ops">>] >>

\* The handler is entered with a non-empty body (an empty one is answered 400
\* before process_alert is called).
Receive(alert_data) ==
    /\ ingest.pc \in Resting
    /\ alert_data # EmptyDict
    /\ Len(alert_history) < MaxHistory
    /\ ingest' = [ pc |-> "received", alert_data |-> alert_data, at |-> now,
                   alert |-> NoAlert,
                   active_before |-> active_alerts, history_before |-> alert_history,
                   trail |-> <<"received">>,
                   target_channels |-> <<>>, notification |-> NotNotified ]
    /\ UNCHANGED <<active_alerts, alert_history, notification_channels, routing_rules, now,
                   handled, hub>>

\* alert = Alert(id=self.generate_alert_id(alert_data), ...), or the except branch
BuildAlert ==
    /\ ingest.pc = "received"
    /\ ingest' = IF AlertRaises(ingest.alert_data) THEN Goto("failed")
                 ELSE [Goto("fingerprinted") EXCEPT
                          !.alert = PipelineTable[ingest.alert_data, ingest.at].new]
    /\ UNCHANGED <<active_alerts, alert_history, notification_channels, routing_rules, now,
                   handled, hub>>

\* if self.deduplicate_alert(alert): return None
CheckDuplicate ==
    /\ ingest.pc = "fingerprinted"
    /\ ingest' = Goto(AfterDuplicateCheck(deduplicate_alert(active_alerts, ingest.alert, now)))
    /\ UNCHANGED <<active_alerts, alert_history, notification_channels, routing_rules, now,
                   handled, hub>>

\* alert = self._enrich_alert(alert)
Enrich ==
    /\ ingest.pc = "novel"
    /\ ingest' = [Goto("enriched") EXCEPT
                     !.alert = PipelineTable[ingest.alert_data, ingest.at].enriched]
    /\ UNCHANGED <<active_alerts, alert_history, notification_channels, routing_rules, now,
                   handled, hub>>

\* alert = self._apply_severity_rules(alert)
ApplySeverityRules ==
    /\ ingest.pc = "enriched"
    /\ ingest' = [Goto("escalated") EXCEPT
                     !.alert = PipelineTable[ingest.alert_data, ingest.at].stored]
    /\ UNCHANGED <<active_alerts, alert_history, notification_channels, routing_rules, now,
                   handled, hub>>

\* self.active_alerts[alert.id] = alert
PutActive ==
    /\ ingest.pc = "escalated"
    /\ active_alerts' = DictSet(active_alerts, ingest.alert.id, ingest.alert)
    /\ ingest' = Goto("put_active")
    /\ UNCHANGED <<alert_history, notification_channels, routing_rules, now, handled, hub>>

\* self.alert_history.append(alert); return alert
AppendHistory ==
    /\ ingest.pc = "put_active"
    /\ alert_history' = Append(alert_history, ingest.alert)
    /\ ingest' = Goto("stored")
    /\ UNCHANGED <<active_alerts, notification_channels, routing_rules, now, handled, hub>>

\* target_channels = self.route_alert(alert), in notify_alert; an exception
\* leaves notify_alert and is answered 500 by the handler
Route ==
    /\ ingest.pc = "stored"
    /\ ingest' = IF RouteRaises(routing_rules) THEN Goto("raised")
                 ELSE [Goto("routed") EXCEPT
                          !.target_channels = route_alert(routing_rules, ingest.alert)]
    /\ UNCHANGED <<active_alerts, alert_history, notification_channels, routing_rules, now,
                   handled, hub>>

\* the for loop of notify_alert over target_channels
Dispatch ==
    /\ ingest.pc = "routed"
    /\ \E delivered \in SUBSET PostingChannels(notification_channels) :
          ingest' = [Goto("dispatched") EXCEPT
                        !.notification = notify_alert(routing_rules, notification_channels,
                                                      ingest.alert, delivered)]
    /\ UNCHANGED <<active_alerts, alert_history, notification_channels, routing_rules, now,
                   handled, hub>>

\* return jsonify({'alert_id': ..., 'status': 'processed', ...})
Respond ==
    /\ ingest.pc = "dispatched"
    /\ ingest' = Goto("done")
    /\ UNCHANGED <<active_alerts, alert_history, notification_channels, routing_rules, now,
                   handled, hub>>

InitThreads ==
    /\ active_alerts = EmptyDict
    /\ alert_history = <<>>
    /\ notification_channels \in {_setup_notification_channels, channels_slack_disabled}
    /\ routing_rules \in {_setup_routing_rules, rules_missing_conditions}
    /\ now \in StartTimes
    /\ handled = [op |-> "none", calls |-> <<>>, returned |-> 0]
    /\ ingest = idle_thread
    /\ hub = empty_store

NextThreads ==
    \/ \E alert_data \in Payloads : Receive(alert_data)
    \/ BuildAlert
    \/ CheckDuplicate
    \/ Enrich
    \/ ApplySeverityRules
    \/ PutActive
    \/ AppendHistory
    \/ Route
    \/ Dispatch
    \/ Respond
    \/ get_alert_summary

SpecThreads == InitThreads /\ [][NextThreads]_vars

-----------------------------------------------------------------------------
\* Two requests at once: Flask serves each request in a thread of its own.
\* One request thread runs statement by statement, as above, while another
\* request is handled from start to end between two of its statements.

\* The payloads of the two requests.
RacePayloads == {P_HighCpu, P_DbDown}

InitRace ==
    /\ active_alerts = EmptyDict
    /\ alert_history = <<>>
    /\ notification_channels = _setup_notification_channels
    /\ routing_rules = _setup_routing_rules
    /\ now \in StartTimes
    /\ handled = [op |-> "none", calls |-> <<>>, returned |-> 0]
    /\ ingest = idle_thread
    /\ hub = empty_store

NextRace ==
    \/ \E alert_data \in RacePayloads : Receive(alert_data)
    \/ BuildAlert
    \/ CheckDuplicate
    \/ Enrich
    \/ ApplySeverityRules
    \/ PutActive
    \/ AppendHistory
    \/ Route
    \/ Dispatch
    \/ Respond
    \/ \E alert_data \in RacePayloads : create_alert(alert_data)

SpecRace == InitRace /\ [][NextRace]_vars

-----------------------------------------------------------------------------

\* The process main.py starts: DevOpsAutomationHub builds an AlertProcessor
\* for its scheduler, and create_app() builds a DevOpsAPI with an
\* AlertProcessor of its own for the HTTP handlers.

\* every sample counted, stored or not
run_health_checks_CountingAll ==
    \E delivered \in SUBSET PostingChannels(notification_channels) :
        LET r1 == ProcessAndNotify(hub.active_alerts, hub.alert_history, routing_rules,
                                   notification_channels, sample_alerts[1], now, delivered)
            r2 == ProcessAndNotify(r1.active, r1.history, routing_rules,
                                   notification_channels, sample_alerts[2], now, delivered)
        IN  /\ Len(r2.history) <= MaxHubHistory
            /\ hub' = [active_alerts |-> r2.active, alert_history |-> r2.history]
            /\ handled' = [op |-> "run_health_checks", calls |-> <<r1.call, r2.call>>,
                           returned |-> Len(sample_alerts)]
            /\ UNCHANGED <<active_alerts, alert_history, notification_channels, routing_rules,
                           now, ingest>>

\* run_health_checks, the scheduler's job: process_pending_alerts on the hub's
\* processor; returned is alerts_processed.
run_health_checks ==
    \E delivered \in SUBSET PostingChannels(notification_channels) :
        LET r1 == ProcessAndNotify(hub.active_alerts, hub.alert_history, routing_rules,
                                   notification_channels, sample_alerts[1], now, delivered)
            r2 == ProcessAndNotify(r1.active, r1.history, routing_rules,
                                   notification_channels, sample_alerts[2], now, delivered)
            count == (IF r1.call.returned = "alert" THEN 1 ELSE 0)
                     + (IF r2.call.returned = "alert" THEN 1 ELSE 0)
        IN  /\ Len(r2.history) <= MaxHubHistory
            /\ hub' = [active_alerts |-> r2.active, alert_history |-> r2.history]
            /\ handled' = [op |-> "run_health_checks", calls |-> <<r1.call, r2.call>>,
                           returned |-> count]
            /\ UNCHANGED <<active_alerts, alert_history, notification_channels, routing_rules,
                           now, ingest>>

\* Payloads posted to the API while the scheduler runs: the two the scheduler
\* submits itself, and another.
HubPayloads == {sample_alerts[1], sample_alerts[2], P_HighCpu}

InitHub ==
    /\ active_alerts = EmptyDict
    /\ alert_history = <<>>
    /\ notification_channels = _setup_notification_channels
    /\ routing_rules = _setup_routing_rules
    /\ now \in StartTimes
    /\ handled = [op |-> "none", calls |-> <<>>, returned |-> 0]
    /\ ingest = idle_thread
    /\ hub = empty_store

NextHub ==
    \/ Tick
    \/ run_health_checks
    \/ \E alert_data \in HubPayloads : create_alert(alert_data)
    \/ get_alert_summary

SpecHub == InitHub /\ [][NextHub]_vars

-----------------------------------------------------------------------------
\* Vocabulary of the properties.

\* The calls of process_alert the last handler made, by position.
Calls == handled.calls

CallIds == 1..Len(Calls)

\* The store call i left behind.
ActiveAfter(i) == IF i < Len(Calls) THEN Calls[i + 1].active_before ELSE active_alerts

HistoryAfter(i) == IF i < Len(Calls) THEN Calls[i + 1].history_before ELSE alert_history

\* The fields a payload gives its alert.
TitleOf(alert_data) == DictGet(alert_data, "title", "Unknown Alert")

SourceOf(alert_data) == DictGet(alert_data, "source", "unknown")

DescriptionOf(alert_data) == DictGet(alert_data, "description", "")

\* Two payloads with equal (title, source, description): the same keys
\* present, with the same values.
SameTriple(p, q) ==
    \A k \in {"title", "source", "description"} :
        /\ (k \in DOMAIN p) = (k \in DOMAIN q)
        /\ k \in DOMAIN p => p[k] = q[k]

\* existing is an alert an earlier payload with the triple of alert_data
\* left: it has the id and the three fields that payload gives.
LeftBySameTriple(existing, alert_data) ==
    /\ existing.id = generate_alert_id(alert_data)
    /\ existing.title = TitleOf(alert_data)
    /\ existing.source = SourceOf(alert_data)
    /\ existing.description = DescriptionOf(alert_data)

Size(d) == Cardinality(DOMAIN d)

-----------------------------------------------------------------------------
\* C1: when a payload arrives while an alert left by an earlier payload with
\* the same (title, source, description) is in the active map and less than
\* 5 minutes old, process_alert returns None and the active map has no more
\* entries than before.
C1_DuplicateWithinWindow ==
    \A i \in CallIds :
        LET c == Calls[i]
        IN  (\E id \in DOMAIN c.active_before :
                /\ LeftBySameTriple(c.active_before[id], c.alert_data)
                /\ c.at - c.active_before[id].timestamp < 5)
            => /\ c.returned = "None"
               /\ Size(ActiveAfter(i)) <= Size(c.active_before)

\* The later payload came 4 minutes after the first and was dropped as a duplicate.
C1_Witness ==
    \E i \in CallIds :
        /\ Calls[i].path = "duplicate"
        /\ \E id \in DOMAIN Calls[i].active_before :
              /\ LeftBySameTriple(Calls[i].active_before[id], Calls[i].alert_data)
              /\ Calls[i].at - Calls[i].active_before[id].timestamp = 4
        /\ Size(ActiveAfter(i)) = 1

\* Some active alert found by call c has the title and source of c's
\* payload and is less than 5 minutes old.
RecentSameTitleAndSource(c) ==
    \E id \in DOMAIN c.active_before :
        /\ c.active_before[id].title = TitleOf(c.alert_data)
        /\ c.active_before[id].source = SourceOf(c.alert_data)
        /\ c.at - c.active_before[id].timestamp < 5

\* A payload that states its title and source, neither of them the default
\* value, and whose severity is absent or a string.
PlainPayload(alert_data) ==
    /\ {"title", "source"} \subseteq DOMAIN alert_data
    /\ alert_data.title # "Unknown Alert"
    /\ alert_data.source # "unknown"
    /\ ~AlertRaises(alert_data)

C3_DuplicateIffTitleSourceRecent ==
    \A i \in CallIds :
        ~AlertRaises(Calls[i].alert_data)
        => ((Calls[i].path = "duplicate") <=> RecentSameTitleAndSource(Calls[i]))

\* A duplicate of an alert that differs from the candidate in description,
\* severity and id.
C3_Witness ==
    \E i \in CallIds :
        /\ Calls[i].path = "duplicate"
        /\ \A id \in DOMAIN Calls[i].active_before :
              LET existing == Calls[i].active_before[id]
                  candidate == PipelineTable[Calls[i].alert_data, Calls[i].at].new
              IN  /\ existing.description # candidate.description
                  /\ existing.severity # candidate.severity
                  /\ existing.id # candidate.id

\* The payloads of the model.
AllPayloads == (Payloads \ {P_Empty}) \cup { sample_alerts[i] : i \in 1..Len(sample_alerts) }

\* C4 as stated (for plain payloads): a payload is dropped whenever the alert
\* of an earlier payload with the same (title, source, description) is in
\* the active map, however old that alert is.
C4_DuplicateRegardlessOfTime ==
    \A i \in CallIds :
        LET c == Calls[i]
        IN  (/\ PlainPayload(c.alert_data)
             /\ \E id \in DOMAIN c.active_before :
                    LeftBySameTriple(c.active_before[id], c.alert_data))
            => c.returned = "None"

\* C4, amended: payloads with equal (title, source, description) get the same
\* id; the later one is dropped, the history unchanged, while the alert of the
\* earlier one is active and less than 5 minutes old; and a payload is detected
\* as a duplicate only while some active alert with its title and source is
\* less than 5 minutes old.
C4_SameIdDuplicateOnlyWhileRecent ==
    /\ \A p, q \in AllPayloads : SameTriple(p, q) => generate_alert_id(p) = generate_alert_id(q)
    /\ \A i \in CallIds :
          LET c == Calls[i]
          IN  /\ (\E id \in DOMAIN c.active_before :
                     /\ LeftBySameTriple(c.active_before[id], c.alert_data)
                     /\ c.at - c.active_before[id].timestamp < 5)
                 => (c.returned = "None" /\ HistoryAfter(i) = c.history_before)
              /\ c.path = "duplicate" => RecentSameTitleAndSource(c)

\* The same payload three times: stored, stored again 5 minutes later under
\* the same id, then dropped.
C4_Witness ==
    \E i \in CallIds :
        LET c == Calls[i]
        IN  /\ c.path = "duplicate"
            /\ Len(c.history_before) = 2
            /\ c.history_before[1].id = c.history_before[2].id
            /\ c.history_before[2].timestamp = c.history_before[1].timestamp + 5
            /\ LeftBySameTriple(c.history_before[2], c.alert_data)

\* C5 as stated: stored alerts with equal title, source and description have
\* equal ids.
C5_IdFunctionOfFields ==
    \A i, j \in 1..Len(alert_history) :
        (/\ alert_history[i].title = alert_history[j].title
         /\ alert_history[i].source = alert_history[j].source
         /\ alert_history[i].description = alert_history[j].description)
        => alert_history[i].id = alert_history[j].id

\* The alert call c built, before enrichment and escalation.
Created(c) == PipelineTable[c.alert_data, c.at].new

\* Whether a description of the model mentions an escalation keyword,
\* whatever the case of its letters.
MentionsKeyword ==
    [ d \in { DescriptionOf(p) : p \in AllPayloads } |->
        \E keyword \in {"down", "failed", "error", "timeout"} : Contains(keyword, lower(d)) ]

HasTag(alert, tag) == \E k \in 1..Len(alert.tags) : alert.tags[k] = tag

\* C6: a stored alert whose description mentions a keyword and which was
\* created with severity warning is critical and its last tag is
\* auto_escalated; any other stored alert has the severity it was created
\* with and no auto_escalated tag.
C6_EscalationOnlyFromWarning ==
    \A i \in CallIds :
        Calls[i].path = "stored"
        => LET before == Created(Calls[i])
               after  == Calls[i].alert
           IN  IF MentionsKeyword[before.description] /\ before.severity = "warning"
               THEN /\ after.severity = "critical"
                    /\ Len(after.tags) > Len(before.tags)
                    /\ after.tags[Len(after.tags)] = "auto_escalated"
               ELSE /\ after.severity = before.severity
                    /\ ~HasTag(after, "auto_escalated")

\* The payload {title: "DB down", description: "database connection failed",
\* severity: "warning", source: "database"} is stored critical, tagged
\* auto_escalated and assigned to dba_team.
C6_Witness ==
    \E i \in CallIds :
        /\ Calls[i].alert_data = P_DbDown
        /\ Calls[i].path = "stored"
        /\ Calls[i].alert.severity = "critical"
        /\ HasTag(Calls[i].alert, "auto_escalated")
        /\ Calls[i].alert.assigned_to = "dba_team"

\* C7: every stored alert is assigned by its source alone: kubernetes to
\* k8s_team, aws to cloud_team, database to dba_team, any other source to
\* nobody.
C7_AssignedBySourceAlone ==
    \A a \in { alert_history[i] : i \in 1..Len(alert_history) }
              \cup { active_alerts[id] : id \in DOMAIN active_alerts } :
        /\ a.source = "kubernetes" => a.assigned_to = "k8s_team"
        /\ a.source = "aws" => a.assigned_to = "cloud_team"
        /\ a.source = "database" => a.assigned_to = "dba_team"
        /\ a.source \notin {"kubernetes", "aws", "database"} => a.assigned_to = None

\* An escalated database alert assigned to dba_team beside an alert from
\* "Kubernetes", capitalised, assigned to nobody.
C7_Witness ==
    \E i, j \in 1..Len(alert_history) :
        /\ alert_history[i].source = "database"
        /\ HasTag(alert_history[i], "auto_escalated")
        /\ alert_history[i].assigned_to = "dba_team"
        /\ alert_history[j].source = "Kubernetes"
        /\ alert_history[j].assigned_to = None

\* The calls that stored an alert (and so went on to notify_alert).
StoredCallIds == { i \in CallIds : Calls[i].returned = "alert" }

NoRepeats(xs) == \A i, j \in 1..Len(xs) : i # j => xs[i] # xs[j]

Members(xs) == { xs[i] : i \in 1..Len(xs) }

\* The first position of x in xs.
FirstAt(xs, x) == CHOOSE i \in 1..Len(xs) : xs[i] = x /\ \A j \in 1..(i - 1) : xs[j] # x

\* C8: the list route_alert returns has no repeated name, holds exactly the
\* names the firing rules list, in the order of their first appearance in
\* rule order; under the default rules a critical alert from kubernetes is
\* routed to email_ops, slack_critical, pagerduty, in that order.
C8_RouteUniqueInFirstSeenOrder ==
    \A i \in StoredCallIds :
        LET alert  == Calls[i].alert
            listed == MatchingChannels(routing_rules, alert)
            routed == route_alert(routing_rules, alert)
        IN  /\ NoRepeats(routed)
            /\ Members(routed) = Members(listed)
            /\ \A j, k \in 1..Len(routed) :
                  j < k => FirstAt(listed, routed[j]) < FirstAt(listed, routed[k])
            /\ (/\ routing_rules = _setup_routing_rules
                /\ alert.severity = "critical"
                /\ alert.source = "kubernetes")
               => routed = <<"email_ops", "slack_critical", "pagerduty">>

\* Under the default rules the critical kubernetes sample is routed by two
\* rules, which list five names between them, to three channels.
C8_Witness ==
    \E i \in StoredCallIds :
        /\ routing_rules = _setup_routing_rules
        /\ Calls[i].alert.severity = "critical"
        /\ Calls[i].alert.source = "kubernetes"
        /\ Len(MatchingChannels(routing_rules, Calls[i].alert)) = 5
        /\ Calls[i].notification.channels_attempted = 3
        /\ [k \in 1..3 |-> Calls[i].notification.results[k].channel]
               = <<"email_ops", "slack_critical", "pagerduty">>

\* Every condition of the rule names an attribute the alert has, whose value
\* equals the condition's.
AllConditionsEqual(rule, alert) ==
    \A key \in DOMAIN rule.conditions :
        /\ key \in DOMAIN alert
        /\ key \in StrAttrs
        /\ alert[key] = rule.conditions[key]

AbsentOrDisabled(name) ==
    LET at == { j \in 1..Len(notification_channels) : notification_channels[j].name = name }
    IN  \/ at = {}
        \/ ~notification_channels[CHOOSE j \in at : \A k \in at : j <= k].enabled

WithStatus(n, status) == { k \in 1..Len(n.results) : n.results[k].status = status }

\* C10: notify_alert reports as channels_attempted the number of routed
\* names and one result per name; a name absent from the registry or disabled
\* has the result skipped; the two tallies count the success and the failed
\* results, so that with the skipped results they add up to channels_attempted.
C10_NotifyTallies ==
    \A i \in StoredCallIds :
        LET n      == Calls[i].notification
            routed == route_alert(routing_rules, Calls[i].alert)
        IN  /\ n.channels_attempted = Len(routed)
            /\ Len(n.results) = Len(routed)
            /\ \A k \in 1..Len(routed) :
                  /\ n.results[k].channel = routed[k]
                  /\ AbsentOrDisabled(routed[k]) => n.results[k].status = "skipped"
            /\ n.successful_notifications = Cardinality(WithStatus(n, "success"))
            /\ n.failed_notifications = Cardinality(WithStatus(n, "failed"))
            /\ n.successful_notifications + n.failed_notifications
                   + Cardinality(WithStatus(n, "skipped")) = n.channels_attempted

\* Three channels routed, slack_critical disabled: it is skipped and the
\* tallies add up to 2.
C10_Witness ==
    \E i \in StoredCallIds :
        LET n == Calls[i].notification
        IN  /\ n.channels_attempted = 3
            /\ \E k \in 1..3 :
                  /\ n.results[k].channel = "slack_critical"
                  /\ n.results[k].status = "skipped"
                  /\ \E j \in 1..Len(notification_channels) :
                        /\ notification_channels[j].name = "slack_critical"
                        /\ ~notification_channels[j].enabled
            /\ n.successful_notifications + n.failed_notifications = 2
            /\ n.failed_notifications = 1

\* The registry entry notify_alert finds for a routed name that is not skipped.
ChannelNamed(name) ==
    notification_channels[CHOOSE j \in 1..Len(notification_channels) :
                              /\ notification_channels[j].name = name
                              /\ \A k \in 1..(j - 1) : notification_channels[k].name # name]

\* How often x occurs in xs.
Occurrences(xs, x) == Cardinality({ k \in 1..Len(xs) : xs[k] = x })

\* C11: whatever the outcome of the channels before it, every routed channel
\* gets exactly one result, in routing order; a send function is called once
\* for every routed channel that is found, enabled and of a type that has one,
\* and for no other; a result is skipped exactly when its own channel is absent
\* or disabled, failed when its type has no send function, and success when
\* its send function posts nothing (an email channel, a placeholder URL).
C11_ChannelsIndependent ==
    \A i \in StoredCallIds :
        LET n      == Calls[i].notification
            routed == route_alert(routing_rules, Calls[i].alert)
        IN  /\ [k \in 1..Len(n.results) |-> n.results[k].channel] = routed
            /\ \A k \in 1..Len(routed) :
                  LET name == routed[k]
                      status == n.results[k].status
                  IN  IF AbsentOrDisabled(name)
                      THEN status = "skipped" /\ Occurrences(n.sends, name) = 0
                      ELSE /\ status \in {"success", "failed"}
                           /\ Occurrences(n.sends, name)
                                  = (IF HasSender(ChannelNamed(name).type) THEN 1 ELSE 0)
                           /\ ~HasSender(ChannelNamed(name).type) => status = "failed"
                           /\ (/\ HasSender(ChannelNamed(name).type)
                               /\ \/ ChannelNamed(name).type = "email"
                                  \/ ChannelNamed(name).placeholder)
                              => status = "success"
            /\ \A name \in Members(n.sends) : name \in Members(routed)

\* A skipped channel, then a failed one, then a channel whose send fails,
\* then a success.
C11_Witness ==
    \E i \in StoredCallIds :
        LET n == Calls[i].notification
        IN  /\ Len(n.results) = 4
            /\ [k \in 1..4 |-> n.results[k].status]
                   = <<"skipped", "failed", "failed", "success">>
            /\ n.sends = <<n.results[3].channel, n.results[4].channel>>

\* The steps of a novel payload and of a duplicate, in order.  The store
\* step is two statements: put_active, then stored.
NovelOrder ==
    << "received", "fingerprinted", "novel", "enriched", "escalated", "put_active",
       "stored", "routed", "dispatched", "done" >>

DuplicateOrder == << "received", "fingerprinted", "dropped" >>

IsPrefixOf(xs, ys) == Len(xs) <= Len(ys) /\ xs = SubSeq(ys, 1, Len(xs))

\* The steps the payload in progress has taken, without the failure that
\* ended them, if one did.
StepsTaken ==
    IF ingest.trail # <<>> /\ ingest.trail[Len(ingest.trail)] \in {"failed", "raised"}
    THEN SubSeq(ingest.trail, 1, Len(ingest.trail) - 1)
    ELSE ingest.trail

InHistory(alert) == \E k \in 1..Len(alert_history) : alert_history[k] = alert

\* C12: the steps a payload has taken are an initial part of received,
\* fingerprinted, dropped (exactly for a duplicate) or of received,
\* fingerprinted, novel, enriched, escalated, stored, routed, dispatched,
\* done; a dropped payload has not been enriched, stored, routed or
\* dispatched, and a payload that is routed or dispatched is in the store.
C12_FixedStepOrder ==
    /\ IsPrefixOf(StepsTaken, NovelOrder) \/ IsPrefixOf(StepsTaken, DuplicateOrder)
    /\ Len(StepsTaken) >= 3
       => ((StepsTaken[3] = "dropped") <=> RecentSameTitleAndSource(ingest))
    /\ ingest.pc = "dropped"
       => /\ ingest.alert.tags = DictGet(ingest.alert_data, "tags", <<>>)
          /\ active_alerts = ingest.active_before
          /\ alert_history = ingest.history_before
    /\ ingest.pc \in {"routed", "dispatched", "done"}
       => /\ InHistory(ingest.alert)
          /\ ingest.alert.id \in DOMAIN active_alerts
          /\ active_alerts[ingest.alert.id] = ingest.alert
    /\ ingest.target_channels # <<>> => ingest.pc \in {"routed", "dispatched", "done"}
    /\ ingest.notification # NotNotified => ingest.pc \in {"dispatched", "done"}

\* A second payload has gone through every step of a novel one, and was
\* dispatched to a channel.
C12_Witness ==
    /\ ingest.pc = "done"
    /\ ingest.trail = NovelOrder
    /\ Len(ingest.history_before) = 1
    /\ ingest.notification.channels_attempted >= 1
    /\ alert_history = Append(ingest.history_before, ingest.alert)

StatedOr(alert_data, key, default) ==
    IF key \in DOMAIN alert_data /\ alert_data[key] # None THEN alert_data[key] ELSE default

\* C14 as stated: every payload is processed (stored, or dropped as a
\* duplicate), never dropped because a field is missing or malformed, and a
\* stored alert carries the default for every such field.
C14_IngestionTotal ==
    \A i \in CallIds :
        LET c == Calls[i]
        IN  /\ c.path \in {"stored", "duplicate"}
            /\ c.path = "stored"
               => /\ c.alert.title = StatedOr(c.alert_data, "title", "Unknown Alert")
                  /\ c.alert.description = StatedOr(c.alert_data, "description", "")
                  /\ c.alert.source = StatedOr(c.alert_data, "source", "unknown")
                  /\ "severity" \notin DOMAIN c.alert_data => c.alert.severity = "info"
                  /\ "tags" \notin DOMAIN c.alert_data
                     => \A k \in 1..Len(c.alert.tags) :
                            c.alert.tags[k] \in {"night_hours", "business_hours",
                                                 "container_platform", "pod_issue", "node_issue",
                                                 "cloud_platform", "compute_issue",
                                                 "database_issue", "auto_escalated"}

\* C15: every call of process_alert returns an alert, which it has stored, or
\* None; a payload the alert cannot be built from gives None, and a call that
\* returns None because of a failure leaves the active map and the history as
\* they were.
C15_ReturnsAlertOrNone ==
    \A i \in CallIds :
        LET c == Calls[i]
        IN  /\ c.returned \in {"alert", "None"}
            /\ c.returned = "alert"
               => /\ c.alert # NoAlert
                  /\ ActiveAfter(i)[c.alert.id] = c.alert
                  /\ HistoryAfter(i)[Len(HistoryAfter(i))] = c.alert
            /\ c.returned = "None" => c.alert = NoAlert
            /\ AlertRaises(c.alert_data) => c.path = "failed"
            /\ c.path = "failed"
               => /\ c.returned = "None"
                  /\ ActiveAfter(i) = c.active_before
                  /\ HistoryAfter(i) = c.history_before

\* A payload with a null severity, handled while the store holds an alert.
C15_Witness ==
    \E i \in CallIds :
        /\ Calls[i].path = "failed"
        /\ Calls[i].returned = "None"
        /\ Len(Calls[i].history_before) = 1
        /\ alert_history = Calls[i].history_before
        /\ active_alerts = Calls[i].active_before

\* The alerts the store holds, in the history or in the active map.
StoredAlerts ==
    { alert_history[k] : k \in 1..Len(alert_history) }
        \cup { active_alerts[id] : id \in DOMAIN active_alerts }

\* C16 as stated: every alert in the active map and in the history has one
\* of the severities critical, warning, info.
C16_SeverityInDomain ==
    \A alert \in StoredAlerts : alert.severity \in {"critical", "warning", "info"}

\* C17 as stated: the summary get_alert_summary returned agrees with the
\* store it left: active_alerts is the size of the active map,
\* total_processed the length of the history, recent_alerts_24h the number of
\* history entries less than 24 hours old at the time of the call, and the
\* critical, warning and info counts add up to active_alerts.
C17_SummaryConsistent ==
    handled.op = "get_alert_summary"
    => LET summary == handled.returned
       IN  /\ summary.active_alerts = Size(active_alerts)
           /\ summary.total_processed = Len(alert_history)
           /\ summary.recent_alerts_24h
                  = Cardinality({ k \in 1..Len(alert_history) :
                        summary.last_processed - alert_history[k].timestamp < 24 * 60 })
           /\ summary.severity_breakdown["critical"] + summary.severity_breakdown["warning"]
                  + summary.severity_breakdown["info"] = summary.active_alerts

\* The number of alerts the calls of a handler stored.
StoredBy(h) == Cardinality({ i \in 1..Len(h.calls) : h.calls[i].returned = "alert" })

\* C18: every operation leaves the entries of the history in place and in
\* order; a handler lengthens the history by one entry for each novel alert
\* it stored, appended when it was stored, and by none for a duplicate, a
\* failed payload or a summary, so that total_processed never decreases.
C18_HistoryAppendOnly ==
    /\ [](\A i \in CallIds :
            HistoryAfter(i) = IF Calls[i].returned = "alert"
                              THEN Append(Calls[i].history_before, Calls[i].alert)
                              ELSE Calls[i].history_before)
    /\ [][/\ IsPrefixOf(alert_history, alert_history')
          /\ Len(alert_history') = Len(alert_history)
                                   + (IF <<handled'.op, handled'.calls>>
                                             # <<handled.op, handled.calls>>
                                      THEN StoredBy(handled') ELSE 0)
          /\ handled'.op = "get_alert_summary"
             => /\ alert_history' = alert_history
                /\ handled'.returned.total_processed = Len(alert_history)]_vars

\* A duplicate was dropped and a summary taken after two alerts were stored
\* one after the other: the history holds both, in that order.
C18_Witness ==
    /\ handled.op = "get_alert_summary"
    /\ handled.returned.total_processed = 2
    /\ Size(active_alerts) = 1
    /\ alert_history[1].id = alert_history[2].id
    /\ alert_history[1].timestamp < alert_history[2].timestamp

\* C19 as stated: a summary read while a request is in progress never counts
\* an active alert that the history it saw does not hold yet: the active
\* alerts it counted are the ids of the history entries it counted.
C19_ReaderSeesWholeInsertions ==
    handled.op = "get_alert_summary"
    => handled.returned.active_alerts
           = Cardinality({ alert_history[k].id : k \in 1..handled.returned.total_processed })

\* The fields enrichment and escalation leave alone.
FixedFields == {"id", "title", "description", "source", "timestamp", "status"}

\* C20: a stored alert has the id, title, description, source, timestamp and
\* status of the alert that was created from its payload: the id of the
\* payload, the title, description and source the payload gives, the time of
\* creation and the status new.
C20_EnrichmentKeepsIdentity ==
    /\ \A alert \in StoredAlerts : alert.status = "new"
    /\ \A i \in StoredCallIds :
          LET c       == Calls[i]
              created == Alert(c.alert_data, c.at)
          IN  /\ \A field \in FixedFields : c.alert[field] = created[field]
              /\ c.alert.id = generate_alert_id(c.alert_data)
              /\ c.alert.title = TitleOf(c.alert_data)
              /\ c.alert.description = DescriptionOf(c.alert_data)
              /\ c.alert.source = SourceOf(c.alert_data)
              /\ c.alert.timestamp = c.at
              /\ c.alert.status = "new"

\* An alert that was tagged, escalated and assigned, stored with the fields
\* it was created with.
C20_Witness ==
    \E i \in StoredCallIds :
        LET c       == Calls[i]
            created == Alert(c.alert_data, c.at)
        IN  /\ created.severity = "warning"
            /\ c.alert.severity = "critical"
            /\ c.alert.assigned_to = "dba_team"
            /\ Len(c.alert.tags) > Len(created.tags)
            /\ c.alert.metadata # created.metadata
            /\ \A field \in FixedFields : c.alert[field] = created[field]

\* C21: a stored alert got the tag night_hours exactly when the hour of its
\* timestamp is in [0,6), the tag business_hours exactly when it is in
\* [9,17), each of them once, and so at most one time tag.
C21_TimeTagByHour ==
    \A i \in StoredCallIds :
        LET hour     == (Calls[i].at \div 60) % 24
            night    == Occurrences(Calls[i].alert.tags, "night_hours")
            business == Occurrences(Calls[i].alert.tags, "business_hours")
        IN  /\ night = (IF hour \in 0..5 THEN 1 ELSE 0)
            /\ business = (IF hour \in 9..16 THEN 1 ELSE 0)
            /\ night + business <= 1

\* An alert created at 09:00 sharp, tagged business_hours.
C21_Witness ==
    \E i \in StoredCallIds :
        /\ Calls[i].at = 9 * 60
        /\ Calls[i].alert.tags = <<"business_hours">>

\* The metadata enrichment adds to an alert of that severity.
MetadataFor(severity) ==
    IF severity = "critical"
    THEN [requires_immediate_attention |-> "True", max_response_time |-> "15 minutes"]
    ELSE IF severity = "warning"
    THEN [requires_attention |-> "True", max_response_time |-> "1 hour"]
    ELSE EmptyDict

\* C22: a stored alert was enriched once, from the severity it had when it
\* was created: its metadata is the payload's with the entries for that
\* severity, and no enrichment tag is repeated; an alert escalated from warning
\* to critical is stored as critical with requires_attention and
\* max_response_time '1 hour', and without requires_immediate_attention.
C22_EnrichedOnceBeforeEscalation ==
    \A i \in StoredCallIds :
        LET c       == Calls[i]
            created == Created(c)
            given   == DictGet(c.alert_data, "metadata", EmptyDict)
            added   == MetadataFor(created.severity)
        IN  /\ DOMAIN c.alert.metadata = DOMAIN given \cup DOMAIN added
            /\ \A k \in DOMAIN added : c.alert.metadata[k] = added[k]
            /\ \A k \in DOMAIN given \ DOMAIN added : c.alert.metadata[k] = given[k]
            /\ \A tag \in {"night_hours", "business_hours", "container_platform",
                           "cloud_platform", "pod_issue", "node_issue",
                           "compute_issue", "database_issue"} :
                  Occurrences(c.alert.tags, tag) <= 1
            /\ (created.severity = "warning" /\ c.alert.severity = "critical")
               => /\ c.alert.metadata["requires_attention"] = "True"
                  /\ c.alert.metadata["max_response_time"] = "1 hour"
                  /\ "requires_immediate_attention" \notin DOMAIN c.alert.metadata

\* An escalated alert, stored as critical with the metadata of a warning.
C22_Witness ==
    \E i \in StoredCallIds :
        /\ Created(Calls[i]).severity = "warning"
        /\ Calls[i].alert.severity = "critical"
        /\ HasTag(Calls[i].alert, "auto_escalated")
        /\ Calls[i].alert.metadata
               = [requires_attention |-> "True", max_response_time |-> "1 hour"]

\* C23 as stated: the scheduler and the HTTP layer work on one store: every
\* alert the scheduler's process_pending_alerts stored is in the history the
\* summary query counts, and a payload posted while the alert the scheduler
\* stored for the same payload is less than 5 minutes old is dropped.
C23_SingleStore ==
    /\ \A k \in 1..Len(hub.alert_history) : InHistory(hub.alert_history[k])
    /\ handled.op = "get_alert_summary"
       => handled.returned.total_processed >= Len(hub.alert_history)
    /\ handled.op = "create_alert"
       => \A i \in CallIds :
              (\E id \in DOMAIN hub.active_alerts :
                  /\ LeftBySameTriple(hub.active_alerts[id], Calls[i].alert_data)
                  /\ Calls[i].at - hub.active_alerts[id].timestamp < 5)
              => Calls[i].returned = "None"

\* C24: a payload dropped as a duplicate leaves the active map, every field
\* of the alert it matched included, and the history as they were, is itself
\* unmodified, tags and metadata included, and is not notified.
C24_DuplicateHasNoEffect ==
    \A i \in CallIds :
        Calls[i].path = "duplicate"
        => /\ ActiveAfter(i) = Calls[i].active_before
           /\ HistoryAfter(i) = Calls[i].history_before
           /\ Calls[i].alert_data_after = Calls[i].alert_data
           /\ Calls[i].notification = NotNotified
           /\ Calls[i].alert = NoAlert

\* A payload with tags and metadata, submitted again 4 minutes after it was
\* stored and enriched: dropped.
C24_Witness ==
    \E i \in CallIds :
        LET c == Calls[i]
        IN  /\ c.path = "duplicate"
            /\ {"tags", "metadata"} \subseteq DOMAIN c.alert_data
            /\ \E id \in DOMAIN c.active_before :
                  /\ LeftBySameTriple(c.active_before[id], c.alert_data)
                  /\ c.active_before[id].timestamp = c.at - 4
                  /\ c.active_before[id].tags # c.alert_data.tags
                  /\ active_alerts[id] = c.active_before[id]

\* C25 as stated: of two requests with the same payload handled at the same
\* time at most one stores an alert and is notified, and the history holds one
\* entry for the payload.
C25_OneNovelOfTwo ==
    \A i \in CallIds :
        (/\ Calls[i].alert_data = ingest.alert_data
         /\ Calls[i].at = ingest.at
         /\ Calls[i].returned = "alert")
        => /\ ingest.pc \notin {"put_active", "stored", "routed", "dispatched", "done"}
           /\ ingest.notification = NotNotified
           /\ Cardinality({ k \in 1..Len(alert_history) :
                              /\ alert_history[k].id = Calls[i].alert.id
                              /\ alert_history[k].timestamp = Calls[i].at }) = 1

\* The channel names of the results of a notification, in order.
ChannelsOf(notification) ==
    [k \in 1..Len(notification.results) |-> notification.results[k].channel]

\* C26: under the default rules an alert submitted as warning and escalated
\* is stored as critical and notified on the channels of the critical rule,
\* email_ops, slack_critical, pagerduty in that order, not on those of the
\* warning rule.
C26_RoutedBySeverityAfterEscalation ==
    \A i \in StoredCallIds :
        LET c == Calls[i]
        IN  (/\ routing_rules = _setup_routing_rules
             /\ Created(c).severity = "warning"
             /\ HasTag(c.alert, "auto_escalated"))
            => /\ c.alert.severity = "critical"
               /\ c.notification.channels_attempted = 3
               /\ ChannelsOf(c.notification) = <<"email_ops", "slack_critical", "pagerduty">>

\* The payload submitted with severity WARNING and a description that says
\* TIMEOUT, notified on pagerduty.
C26_Witness ==
    \E i \in StoredCallIds :
        /\ Calls[i].alert_data = P_HighCpuWarn
        /\ HasTag(Calls[i].alert, "auto_escalated")
        /\ Calls[i].notification.results[3].channel = "pagerduty"
        /\ Calls[i].notification.results[3].status = "success"

\* The alerts an earlier pass of the scheduler left for both samples are all
\* less than 5 minutes old (Recent) or all 5 minutes old or more (~Recent).
EarlierPass(h, Recent) ==
    /\ h.calls[1].active_before # EmptyDict
    /\ \A id \in DOMAIN h.calls[1].active_before :
          ((h.calls[1].at - h.calls[1].active_before[id].timestamp < 5) <=> Recent)

\* C27: a pass of process_pending_alerts returns the number of samples it
\* stored and notifies each of those once and no other; a pass less than 5
\* minutes after the one before returns 0 and notifies nothing, a pass 5
\* minutes or more after it stores both samples again and returns 2.
C27_PassCountsNovelSamples ==
    handled.op = "run_health_checks"
    => /\ handled.returned = StoredBy(handled)
       /\ \A i \in CallIds :
             IF Calls[i].returned = "alert"
             THEN /\ Calls[i].notification # NotNotified
                  /\ Calls[i].notification.alert_id = Calls[i].alert.id
                  /\ NoRepeats(Calls[i].notification.sends)
                  /\ Len(Calls[i].notification.sends) >= 1
             ELSE Calls[i].notification = NotNotified
       /\ EarlierPass(handled, TRUE) => handled.returned = 0
       /\ EarlierPass(handled, FALSE)
          => /\ handled.returned = 2
             /\ Len(hub.alert_history) = Len(Calls[1].history_before) + 2

\* A first pass, a second one 4 minutes later that returned 0 (seen from the
\* third), and a third 5 minutes after the first that returned 2.
C27_Witness ==
    /\ handled.op = "run_health_checks"
    /\ handled.returned = 2
    /\ Len(hub.alert_history) = 4
    /\ hub.alert_history[3].timestamp = hub.alert_history[1].timestamp + 5
    /\ Size(hub.active_alerts) = 2

\* C28 as stated: a call that stores an alert removes no entry of the active
\* map, and replaces an entry only with an alert of the same title, source
\* and description.
C28_OverwriteOnlySameTriple ==
    \A i \in StoredCallIds :
        LET c == Calls[i]
        IN  \A id \in DOMAIN c.active_before :
                /\ id \in DOMAIN ActiveAfter(i)
                /\ ActiveAfter(i)[id] # c.active_before[id]
                   => /\ c.active_before[id].title = c.alert.title
                      /\ c.active_before[id].source = c.alert.source
                      /\ c.active_before[id].description = c.alert.description

\* C29: every alert in the active map is stored under its own id and is an
\* entry of the history, so the active map is never larger than the history
\* is long, and the summary's recent_alerts_24h never exceeds its
\* total_processed.
C29_ActiveWithinHistory ==
    /\ \A id \in DOMAIN active_alerts :
           /\ active_alerts[id].id = id
           /\ InHistory(active_alerts[id])
    /\ Size(active_alerts) <= Len(alert_history)
    /\ AlertSummary(active_alerts, alert_history, now).recent_alerts_24h
           <= AlertSummary(active_alerts, alert_history, now).total_processed
    /\ handled.op = "get_alert_summary"
       => handled.returned.recent_alerts_24h <= handled.returned.total_processed

\* The same payload stored twice, 5 minutes apart: one active alert, two
\* history entries, and a summary taken of them.
C29_Witness ==
    /\ handled.op = "get_alert_summary"
    /\ handled.returned.active_alerts = 1
    /\ handled.returned.total_processed = 2
    /\ Size(active_alerts) = 1
    /\ Len(alert_history) = 2
    /\ alert_history[1].id = alert_history[2].id
    /\ InHistory(active_alerts[alert_history[2].id])

\* C30: under the default rules a stored alert created with severity
\* critical, warning or info is routed to email_ops (and possibly more), and
\* a stored alert of any other severity whose source is not "kubernetes" is
\* in the active map and the history but routed nowhere: channels_attempted
\* is 0, no result is recorded and nothing is sent.
C30_DefaultRouting ==
    routing_rules = _setup_routing_rules
    => \A i \in StoredCallIds :
           LET c == Calls[i]
           IN  /\ Created(c).severity \in {"critical", "warning", "info"}
                  => /\ c.notification.channels_attempted >= 1
                     /\ "email_ops" \in Members(ChannelsOf(c.notification))
                     /\ "email_ops" \in Members(route_alert(routing_rules, c.alert))
               /\ (/\ Created(c).severity \notin {"critical", "warning", "info"}
                   /\ c.alert.source # "kubernetes")
                  => /\ ActiveAfter(i)[c.alert.id] = c.alert
                     /\ HistoryAfter(i) = Append(c.history_before, c.alert)
                     /\ c.notification.channels_attempted = 0
                     /\ c.notification.results = <<>>
                     /\ c.notification.sends = <<>>

\* The payload of severity fatal from source Kubernetes, stored and notified
\* on no channel.
C30_Witness ==
    \E i \in StoredCallIds :
        /\ Calls[i].alert_data = P_Fatal
        /\ Calls[i].alert.severity = "fatal"
        /\ Calls[i].alert.id \in DOMAIN active_alerts
        /\ InHistory(Calls[i].alert)
        /\ Calls[i].notification.channels_attempted = 0

====
